---- MODULE Spec2Model ----
(***************************************************************************)
(* Model of python/ray/data/block.py: the batch-format resolver, the       *)
(* BlockMetadata constructor, and the BlockAccessor dispatch methods       *)
(* (to_batch_format, get_metadata, batch_to_block, for_block).             *)
(*                                                                         *)
(* Python values are records [type |-> <class name>, ...].  The process    *)
(* state is the log_once key set, the number of fallback warnings the      *)
(* logger has emitted, and a record of the last call and its outcome.      *)
(***************************************************************************)
EXTENDS Integers, Sequences, FiniteSets, TLC

VARIABLES
    logged,     \* keys already passed to log_once in this process
    warnings,   \* number of "falling back to Pandas block" warnings logged
    fellBack,   \* history: some earlier batch_to_block call fell back to pandas
    calls,      \* number of calls made so far
    last        \* the last call: its name, arguments, outcome and call trace

vars == <<logged, warnings, fellBack, calls, last>>

\* ------------------------------------------------------------------ bounds

MaxCalls == 3
MaxData == 2

\* ----------------------------------------------------------- Python values

PyNone == [type |-> "NoneType", v |-> "None"]
Str(s) == [type |-> "str", v |-> s]
PyInt(n) == [type |-> "int", v |-> n]
PyList(items) == [type |-> "list", v |-> items]

\* The classes a value of class t is an instance of (its MRO, as far as the
\* isinstance checks of block.py can tell).
Mro(t) ==
    CASE t = "bool" -> {"bool", "int"}
      [] t = "dict" -> {"dict", "Mapping"}
      [] OTHER -> {t}

IsInstance(x, cls) == cls \in Mro(x.type)

Return(x) == [status |-> "return", value |-> x]
Raise(e) == [status |-> "raise", exc |-> e]

\* -------------------------------------------------------------- BlockType

ARROW == [type |-> "BlockType", v |-> "arrow"]
PANDAS == [type |-> "BlockType", v |-> "pandas"]

\* -------------------------------------------------------- batch formats

VALID_BATCH_FORMATS == <<Str("pandas"), Str("pyarrow"), Str("numpy"), PyNone>>
DEFAULT_BATCH_FORMAT == Str("numpy")

Range(s) == {s[i] : i \in 1..Len(s)}

FormatError(fn, given) ==
    [type |-> "ValueError", fn |-> fn, names |-> VALID_BATCH_FORMATS, got |-> given]

_apply_batch_format(given_batch_format) ==
    LET given == IF given_batch_format = Str("default")
                 THEN DEFAULT_BATCH_FORMAT
                 ELSE given_batch_format
    IN  IF given \notin Range(VALID_BATCH_FORMATS)
        THEN Raise(FormatError("_apply_batch_format", given))
        ELSE Return(given)

\* The abstract conversions of an accessor: the result names the method that
\* produced it and the block it was applied to.
Converted(self, method) == [method |-> method, of |-> self.block]

to_block(self) == Converted(self, "to_block")
to_default(self) == to_block(self)
to_pandas(self) == Converted(self, "to_pandas")
to_arrow(self) == Converted(self, "to_arrow")
to_numpy(self) == Converted(self, "to_numpy")

to_batch_format(self, batch_format) ==
    IF batch_format = PyNone THEN Return(to_block(self))
    ELSE IF batch_format = Str("default") \/ batch_format = Str("native")
    THEN Return(to_default(self))
    ELSE IF batch_format = Str("pandas") THEN Return(to_pandas(self))
    ELSE IF batch_format = Str("pyarrow") THEN Return(to_arrow(self))
    ELSE IF batch_format = Str("numpy") THEN Return(to_numpy(self))
    ELSE Raise(FormatError("to_batch_format", batch_format))

\* ---------------------------------------------------------- BlockMetadata

AssertionError == [type |-> "AssertionError"]

\* BlockMetadata with the isinstance assertion of __post_init__ left out.
BlockMetadata_NoAssert(num_rows, size_bytes, schema, input_files, exec_stats) ==
    Return([type |-> "BlockMetadata",
            num_rows |-> num_rows,
            size_bytes |-> size_bytes,
            schema |-> schema,
            input_files |-> IF input_files = PyNone THEN PyList(<<>>) ELSE input_files,
            exec_stats |-> exec_stats])

\* BlockMetadata with the input_files normalisation of __post_init__ left out.
BlockMetadata_NoNormalize(num_rows, size_bytes, schema, input_files, exec_stats) ==
    IF size_bytes # PyNone /\ ~IsInstance(size_bytes, "int")
    THEN Raise(AssertionError)
    ELSE Return([type |-> "BlockMetadata",
                 num_rows |-> num_rows,
                 size_bytes |-> size_bytes,
                 schema |-> schema,
                 input_files |-> input_files,
                 exec_stats |-> exec_stats])

\* The dataclass constructor followed by __post_init__.
BlockMetadata(num_rows, size_bytes, schema, input_files, exec_stats) ==
    LET files == IF input_files = PyNone THEN PyList(<<>>) ELSE input_files
    IN  IF size_bytes # PyNone /\ ~IsInstance(size_bytes, "int")
        THEN Raise(AssertionError)
        ELSE Return([type |-> "BlockMetadata",
                     num_rows |-> num_rows,
                     size_bytes |-> size_bytes,
                     schema |-> schema,
                     input_files |-> files,
                     exec_stats |-> exec_stats])

\* The accessor's abstract queries: a concrete accessor answers each with a
\* value of its own, carried here by the accessor record.
num_rows(self) == self.num_rows
size_bytes(self) == self.size_bytes
schema(self) == self.schema

get_metadata(self, input_files, exec_stats) ==
    BlockMetadata(num_rows(self), size_bytes(self), schema(self),
                  input_files, exec_stats)

\* ------------------------------------------------------- batch_to_block

FALLBACK_KEY == "_fallback_to_pandas_block_warning"

\* ray.util.log_once: TRUE the first time a key is seen, FALSE afterwards.
log_once(key, lg) == [ret |-> key \notin lg, logged |-> lg \cup {key}]

ArrowConversionError(batch) == [type |-> "ArrowConversionError", data |-> batch.data]

\* ArrowBlockBuilder._table_from_pydict: an Arrow table of the mapping's
\* columns, or ArrowConversionError when the columns do not convert.
_table_from_pydict(batch) ==
    IF batch.arrowOk THEN Return([type |-> "pyarrow.Table", data |-> batch.data])
    ELSE Raise(ArrowConversionError(batch))

\* PandasBlockAccessor.numpy_to_block: a dataframe of the mapping's columns.
numpy_to_block(batch) == [type |-> "pandas.DataFrame", data |-> batch.data]

batch_to_arrow_block(batch) == _table_from_pydict(batch)

batch_to_pandas_block(batch) == Return(numpy_to_block(batch))

NdarrayError(batch) ==
    [type |-> "ValueError", about |-> "standalone numpy array", data |-> batch.data]

\* batch_to_block falling back to pandas whatever block_type was asked for.
batch_to_block_AlwaysFallBack(batch, block_type, lg) ==
    IF IsInstance(batch, "numpy.ndarray")
    THEN [out |-> Raise(NdarrayError(batch)), logged |-> lg, trace |-> <<>>]
    ELSE IF IsInstance(batch, "Mapping")
    THEN IF block_type = PyNone \/ block_type = ARROW
         THEN LET a == batch_to_arrow_block(batch) IN
              IF a.status = "return"
              THEN [out |-> a, logged |-> lg, trace |-> <<"batch_to_arrow_block">>]
              ELSE LET lo == log_once(FALLBACK_KEY, lg)
                       tr == <<"batch_to_arrow_block", "log_once">>
                             \o (IF lo.ret THEN <<"logger.warning">> ELSE <<>>)
                   IN  IF TRUE
                       THEN [out |-> batch_to_pandas_block(batch),
                             logged |-> lo.logged,
                             trace |-> tr \o <<"batch_to_pandas_block">>]
                       ELSE [out |-> Raise(a.exc), logged |-> lo.logged, trace |-> tr]
         ELSE IF block_type = PANDAS
              THEN [out |-> batch_to_pandas_block(batch), logged |-> lg,
                    trace |-> <<"batch_to_pandas_block">>]
              ELSE [out |-> Raise(AssertionError), logged |-> lg, trace |-> <<>>]
    ELSE [out |-> Return(batch), logged |-> lg, trace |-> <<>>]

\* batch_to_block trying Arrow first for every valid block_type, PANDAS included.
batch_to_block_ArrowFirst(batch, block_type, lg) ==
    IF IsInstance(batch, "numpy.ndarray")
    THEN [out |-> Raise(NdarrayError(batch)), logged |-> lg, trace |-> <<>>]
    ELSE IF IsInstance(batch, "Mapping")
    THEN IF block_type \in {PyNone, ARROW, PANDAS}
         THEN LET a == batch_to_arrow_block(batch) IN
              IF a.status = "return"
              THEN [out |-> a, logged |-> lg, trace |-> <<"batch_to_arrow_block">>]
              ELSE LET lo == log_once(FALLBACK_KEY, lg)
                       tr == <<"batch_to_arrow_block", "log_once">>
                             \o (IF lo.ret THEN <<"logger.warning">> ELSE <<>>)
                   IN  IF block_type # ARROW
                       THEN [out |-> batch_to_pandas_block(batch),
                             logged |-> lo.logged,
                             trace |-> tr \o <<"batch_to_pandas_block">>]
                       ELSE [out |-> Raise(a.exc), logged |-> lo.logged, trace |-> tr]
         ELSE IF block_type = PANDAS
              THEN [out |-> batch_to_pandas_block(batch), logged |-> lg,
                    trace |-> <<"batch_to_pandas_block">>]
              ELSE [out |-> Raise(AssertionError), logged |-> lg, trace |-> <<>>]
    ELSE [out |-> Return(batch), logged |-> lg, trace |-> <<>>]

\* batch_to_block converting a native block to the representation block_type names.
batch_to_block_ConvertNative(batch, block_type, lg) ==
    IF IsInstance(batch, "numpy.ndarray")
    THEN [out |-> Raise(NdarrayError(batch)), logged |-> lg, trace |-> <<>>]
    ELSE IF IsInstance(batch, "Mapping")
    THEN IF block_type = PyNone \/ block_type = ARROW
         THEN LET a == batch_to_arrow_block(batch) IN
              IF a.status = "return"
              THEN [out |-> a, logged |-> lg, trace |-> <<"batch_to_arrow_block">>]
              ELSE LET lo == log_once(FALLBACK_KEY, lg)
                       tr == <<"batch_to_arrow_block", "log_once">>
                             \o (IF lo.ret THEN <<"logger.warning">> ELSE <<>>)
                   IN  IF block_type = PyNone
                       THEN [out |-> batch_to_pandas_block(batch),
                             logged |-> lo.logged,
                             trace |-> tr \o <<"batch_to_pandas_block">>]
                       ELSE [out |-> Raise(a.exc), logged |-> lo.logged, trace |-> tr]
         ELSE IF block_type = PANDAS
              THEN [out |-> batch_to_pandas_block(batch), logged |-> lg,
                    trace |-> <<"batch_to_pandas_block">>]
              ELSE [out |-> Raise(AssertionError), logged |-> lg, trace |-> <<>>]
    ELSE [out |-> IF block_type = PANDAS /\ IsInstance(batch, "pyarrow.Table")
                  THEN Return(numpy_to_block(batch))
                  ELSE IF block_type = ARROW /\ IsInstance(batch, "pandas.DataFrame")
                  THEN Return([type |-> "pyarrow.Table", data |-> batch.data])
                  ELSE Return(batch), logged |-> lg, trace |-> <<>>]

\* batch_to_block logging the warning without consulting log_once's answer.
batch_to_block_LogAlways(batch, block_type, lg) ==
    IF IsInstance(batch, "numpy.ndarray")
    THEN [out |-> Raise(NdarrayError(batch)), logged |-> lg, trace |-> <<>>]
    ELSE IF IsInstance(batch, "Mapping")
    THEN IF block_type = PyNone \/ block_type = ARROW
         THEN LET a == batch_to_arrow_block(batch) IN
              IF a.status = "return"
              THEN [out |-> a, logged |-> lg, trace |-> <<"batch_to_arrow_block">>]
              ELSE LET lo == log_once(FALLBACK_KEY, lg)
                       tr == <<"batch_to_arrow_block", "log_once">>
                             \o (IF TRUE THEN <<"logger.warning">> ELSE <<>>)
                   IN  IF block_type = PyNone
                       THEN [out |-> batch_to_pandas_block(batch),
                             logged |-> lo.logged,
                             trace |-> tr \o <<"batch_to_pandas_block">>]
                       ELSE [out |-> Raise(a.exc), logged |-> lo.logged, trace |-> tr]
         ELSE IF block_type = PANDAS
              THEN [out |-> batch_to_pandas_block(batch), logged |-> lg,
                    trace |-> <<"batch_to_pandas_block">>]
              ELSE [out |-> Raise(AssertionError), logged |-> lg, trace |-> <<>>]
    ELSE [out |-> Return(batch), logged |-> lg, trace |-> <<>>]

\* The result carries the outcome, the log_once key set afterwards and the
\* trace of the calls the method made, in order.
batch_to_block(batch, block_type, lg) ==
    IF IsInstance(batch, "numpy.ndarray")
    THEN [out |-> Raise(NdarrayError(batch)), logged |-> lg, trace |-> <<>>]
    ELSE IF IsInstance(batch, "Mapping")
    THEN IF block_type = PyNone \/ block_type = ARROW
         THEN LET a == batch_to_arrow_block(batch) IN
              IF a.status = "return"
              THEN [out |-> a, logged |-> lg, trace |-> <<"batch_to_arrow_block">>]
              ELSE LET lo == log_once(FALLBACK_KEY, lg)
                       tr == <<"batch_to_arrow_block", "log_once">>
                             \o (IF lo.ret THEN <<"logger.warning">> ELSE <<>>)
                   IN  IF block_type = PyNone
                       THEN [out |-> batch_to_pandas_block(batch),
                             logged |-> lo.logged,
                             trace |-> tr \o <<"batch_to_pandas_block">>]
                       ELSE [out |-> Raise(a.exc), logged |-> lo.logged, trace |-> tr]
         ELSE IF block_type = PANDAS
              THEN [out |-> batch_to_pandas_block(batch), logged |-> lg,
                    trace |-> <<"batch_to_pandas_block">>]
              ELSE [out |-> Raise(AssertionError), logged |-> lg, trace |-> <<>>]
    ELSE [out |-> Return(batch), logged |-> lg, trace |-> <<>>]

\* ------------------------------------------------------------ for_block

\* ArrowBlockAccessor.from_bytes: the accessor of the deserialized table.
from_bytes(block) ==
    [cls |-> "ArrowBlockAccessor", block |-> [type |-> "pyarrow.Table", data |-> block.data]]

ListError(block) ==
    [type |-> "ValueError", about |-> "wrap in a dict of numpy arrays", data |-> block.data]

NotABlockError(block) == [type |-> "TypeError", names |-> block.type, data |-> block.data]

\* for_block without the branch that rejects a bare list.
for_block_NoListCheck(block) ==
    IF IsInstance(block, "pyarrow.Table")
    THEN Return([cls |-> "ArrowBlockAccessor", block |-> block])
    ELSE IF IsInstance(block, "pandas.DataFrame")
    THEN Return([cls |-> "PandasBlockAccessor", block |-> block])
    ELSE IF IsInstance(block, "bytes") THEN Return(from_bytes(block))
    ELSE Raise(NotABlockError(block))

\* The isinstance chain of for_block, taken in the source's order.  The
\* pyarrow version check that precedes it passes on a supported installation
\* and is not part of the dispatch.
for_block(block) ==
    IF IsInstance(block, "pyarrow.Table")
    THEN Return([cls |-> "ArrowBlockAccessor", block |-> block])
    ELSE IF IsInstance(block, "pandas.DataFrame")
    THEN Return([cls |-> "PandasBlockAccessor", block |-> block])
    ELSE IF IsInstance(block, "bytes") THEN Return(from_bytes(block))
    ELSE IF IsInstance(block, "list") THEN Raise(ListError(block))
    ELSE Raise(NotABlockError(block))

\* ------------------------------------------------------------- inputs

DataIds == 1..MaxData

Table(d) == [type |-> "pyarrow.Table", data |-> d]
DataFrame(d) == [type |-> "pandas.DataFrame", data |-> d]

BatchFormatArgs ==
    {PyNone, Str("default"), Str("native"), Str("pandas"), Str("pyarrow"),
     Str("numpy"), Str("arrow"), Str("None")}

Blocks == {Table(d) : d \in DataIds} \cup {DataFrame(d) : d \in DataIds}

Accessors ==
    {[cls |-> IF b.type = "pyarrow.Table" THEN "ArrowBlockAccessor"
                                         ELSE "PandasBlockAccessor",
      block |-> b] : b \in Blocks}

Mappings == {[type |-> "dict", data |-> d, arrowOk |-> ok] : d \in DataIds, ok \in BOOLEAN}

Plain(t) == {[type |-> t, data |-> d] : d \in DataIds}

\* What a caller may hand to batch_to_block.
DataBatches == Blocks \cup Mappings \cup Plain("numpy.ndarray") \cup Plain("list")

BlockTypeArgs == {PyNone, ARROW, PANDAS, Str("arrow")}

\* What a caller may hand to for_block.
ForBlockArgs ==
    Blocks \cup Mappings \cup Plain("bytes") \cup Plain("list")
    \cup Plain("numpy.ndarray") \cup Plain("tuple") \cup Plain("str")

NumRowsArgs == {PyNone} \cup {PyInt(d) : d \in DataIds}

SizeBytesArgs ==
    {PyNone, PyInt(0), PyInt(MaxData), [type |-> "bool", v |-> 1],
     [type |-> "float", v |-> MaxData], [type |-> "numpy.int64", v |-> MaxData]}

SchemaArgs == {PyNone, [type |-> "pyarrow.lib.Schema", v |-> "schema"]}

InputFilesArgs == {PyNone, PyList(<<>>), PyList(<<"a.csv">>)}

ExecStatsArgs == {PyNone, [type |-> "BlockExecStats", v |-> "stats"]}

\* Concrete accessors, each with the answers of its abstract queries: the row
\* count is the wrapped block's, the size and the schema whatever the concrete
\* accessor computes.
MetadataAccessors ==
    {[cls |-> a.cls, block |-> a.block, num_rows |-> PyInt(a.block.data),
      size_bytes |-> sz, schema |-> sc] :
        a \in Accessors, sz \in SizeBytesArgs, sc \in SchemaArgs}

\* ------------------------------------------------------------- actions

Init ==
    /\ logged = {}
    /\ warnings = 0
    /\ fellBack = FALSE
    /\ calls = 0
    /\ last = [op |-> "none"]

ApplyBatchFormat ==
    /\ calls < MaxCalls
    /\ \E fmt \in BatchFormatArgs :
         last' = [op |-> "_apply_batch_format", arg |-> fmt,
                  out |-> _apply_batch_format(fmt)]
    /\ calls' = calls + 1
    /\ UNCHANGED <<logged, warnings, fellBack>>

ToBatchFormat ==
    /\ calls < MaxCalls
    /\ \E self \in Accessors, fmt \in BatchFormatArgs :
         last' = [op |-> "to_batch_format", self |-> self, arg |-> fmt,
                  out |-> to_batch_format(self, fmt)]
    /\ calls' = calls + 1
    /\ UNCHANGED <<logged, warnings, fellBack>>

NewBlockMetadata ==
    /\ calls < MaxCalls
    /\ \E n \in NumRowsArgs, sz \in SizeBytesArgs, sc \in SchemaArgs,
          f \in InputFilesArgs, st \in ExecStatsArgs :
         last' = [op |-> "BlockMetadata", size_bytes |-> sz, num_rows |-> n,
                  schema |-> sc, input_files |-> f,
                  out |-> BlockMetadata(n, sz, sc, f, st)]
    /\ calls' = calls + 1
    /\ UNCHANGED <<logged, warnings, fellBack>>

GetMetadata ==
    /\ calls < MaxCalls
    /\ \E self \in MetadataAccessors, f \in InputFilesArgs, st \in ExecStatsArgs :
         last' = [op |-> "get_metadata", size_bytes |-> self.size_bytes,
                  num_rows |-> self.num_rows, schema |-> self.schema,
                  input_files |-> f,
                  out |-> get_metadata(self, f, st)]
    /\ calls' = calls + 1
    /\ UNCHANGED <<logged, warnings, fellBack>>

InTrace(tr, name) == \E i \in 1..Len(tr) : tr[i] = name

Logged(tr) == InTrace(tr, "logger.warning")

FellBack(tr) == InTrace(tr, "batch_to_arrow_block") /\ InTrace(tr, "batch_to_pandas_block")

BatchToBlock ==
    /\ calls < MaxCalls
    /\ \E batch \in DataBatches, bt \in BlockTypeArgs :
         LET r == batch_to_block(batch, bt, logged) IN
         /\ logged' = r.logged
         /\ warnings' = warnings + (IF Logged(r.trace) THEN 1 ELSE 0)
         /\ fellBack' = (fellBack \/ FellBack(r.trace))
         /\ last' = [op |-> "batch_to_block", batch |-> batch, block_type |-> bt,
                     out |-> r.out, trace |-> r.trace]
    /\ calls' = calls + 1

ForBlock ==
    /\ calls < MaxCalls
    /\ \E block \in ForBlockArgs :
         last' = [op |-> "for_block", block |-> block, out |-> for_block(block)]
    /\ calls' = calls + 1
    /\ UNCHANGED <<logged, warnings, fellBack>>

Next ==
    \/ ApplyBatchFormat
    \/ ToBatchFormat
    \/ NewBlockMetadata
    \/ GetMetadata
    \/ BatchToBlock
    \/ ForBlock

Spec == Init /\ [][Next]_vars

\* ------------------------------------------------------------ properties

IsB2B == last.op = "batch_to_block"

MappingCall == IsB2B /\ last.batch.type = "dict"

ArrowFailed == MappingCall /\ ~last.batch.arrowOk

PandasOf(batch) == [type |-> "pandas.DataFrame", data |-> batch.data]

ArrowOf(batch) == [type |-> "pyarrow.Table", data |-> batch.data]

\* C1: a mapping whose Arrow conversion fails with ArrowConversionError is
\* returned as the dataframe block of the same mapping, nothing raised, when
\* block_type is None; with block_type ARROW no block is returned and that
\* ArrowConversionError propagates.
C1_ArrowFailurePolicy ==
    ArrowFailed =>
        /\ last.block_type = PyNone => last.out = Return(PandasOf(last.batch))
        /\ last.block_type = ARROW =>
             last.out = Raise([type |-> "ArrowConversionError", data |-> last.batch.data])

C1_Witness ==
    /\ ArrowFailed
    /\ last.block_type = ARROW
    /\ last.out.status = "raise"
    /\ fellBack

\* C2: for a mapping, block_type None or ARROW with a successful Arrow
\* conversion gives the Arrow block; block_type PANDAS gives the dataframe
\* block with no Arrow attempt, so no ArrowConversionError and no warning.
C2_MappingConversion ==
    MappingCall =>
        /\ (last.block_type \in {PyNone, ARROW} /\ last.batch.arrowOk) =>
             last.out = Return(ArrowOf(last.batch))
        /\ last.block_type = PANDAS =>
             /\ last.out = Return(PandasOf(last.batch))
             /\ last.trace = <<"batch_to_pandas_block">>

C2_Witness ==
    /\ ArrowFailed
    /\ last.block_type = PANDAS
    /\ last.out = Return(PandasOf(last.batch))

\* C3: a batch that is already a native block (Arrow table or dataframe) is
\* returned unchanged for block_type None, ARROW and PANDAS alike, with no
\* conversion call, no error, and the log_once keys and the warning count
\* left as they were.
C3_NativePassThrough ==
    [][(/\ calls' # calls
        /\ last'.op = "batch_to_block"
        /\ last'.batch.type \in {"pyarrow.Table", "pandas.DataFrame"}
        /\ last'.block_type \in {PyNone, ARROW, PANDAS})
       => /\ last'.out = Return(last'.batch)
          /\ last'.trace = <<>>
          /\ logged' = logged
          /\ warnings' = warnings]_vars

C3_Witness ==
    /\ IsB2B
    /\ last.batch.type = "pyarrow.Table"
    /\ last.block_type = PANDAS
    /\ last.out = Return(last.batch)

\* C4: for_block dispatches on the representation of its argument: an Arrow
\* table gives the Arrow accessor, a dataframe the dataframe accessor, bytes
\* the Arrow accessor of the deserialized table, a bare list a ValueError
\* asking for a named-column mapping, anything else a TypeError naming the
\* type; nothing else returns an accessor.
C4_ForBlockDispatch ==
    last.op = "for_block" =>
        LET b == last.block
            o == last.out
        IN  /\ b.type = "pyarrow.Table" =>
                 o = Return([cls |-> "ArrowBlockAccessor", block |-> b])
            /\ b.type = "pandas.DataFrame" =>
                 o = Return([cls |-> "PandasBlockAccessor", block |-> b])
            /\ b.type = "bytes" =>
                 /\ o.status = "return"
                 /\ o.value.cls = "ArrowBlockAccessor"
                 /\ o.value.block = ArrowOf(b)
            /\ b.type = "list" =>
                 /\ o.status = "raise"
                 /\ o.exc.type = "ValueError"
                 /\ o.exc.about = "wrap in a dict of numpy arrays"
            /\ b.type \notin {"pyarrow.Table", "pandas.DataFrame", "bytes", "list"} =>
                 /\ o.status = "raise"
                 /\ o.exc.type = "TypeError"
                 /\ o.exc.names = b.type

C4_Witness ==
    /\ last.op = "for_block"
    /\ last.block.type = "list"
    /\ last.out.status = "raise"
    /\ last.out.exc.type = "ValueError"

\* The tags to_batch_format converts instead of rejecting.
AcceptedBatchFormats ==
    {f \in BatchFormatArgs : \A a \in Accessors : to_batch_format(a, f).status = "return"}

EnumeratedBatchFormats ==
    {PyNone, Str("default"), Str("native"), Str("pandas"), Str("pyarrow"), Str("numpy")}

\* C5: to_batch_format dispatches None to to_block, "default" and "native"
\* to to_default, "pandas" to to_pandas, "pyarrow" to to_arrow, "numpy" to
\* to_numpy, and rejects any other tag with a ValueError whose listed values
\* are exactly the tags to_batch_format accepts.
C5_ErrorNamesAcceptedSet ==
    last.op = "to_batch_format" =>
        LET f == last.arg
            o == last.out
        IN  /\ f = PyNone => o = Return(to_block(last.self))
            /\ f \in {Str("default"), Str("native")} => o = Return(to_default(last.self))
            /\ f = Str("pandas") => o = Return(to_pandas(last.self))
            /\ f = Str("pyarrow") => o = Return(to_arrow(last.self))
            /\ f = Str("numpy") => o = Return(to_numpy(last.self))
            /\ f \notin EnumeratedBatchFormats =>
                 /\ o.status = "raise"
                 /\ o.exc.type = "ValueError"
                 /\ Range(o.exc.names) = AcceptedBatchFormats

\* C6: _apply_batch_format returns a format for each of None, "default",
\* "native", "pandas", "pyarrow", "numpy" and raises a ValueError naming the
\* valid set for every other value.
C6_ResolverAcceptsEnumeratedSet ==
    last.op = "_apply_batch_format" =>
        /\ last.arg \in EnumeratedBatchFormats => last.out.status = "return"
        /\ last.arg \notin EnumeratedBatchFormats =>
             /\ last.out.status = "raise"
             /\ last.out.exc.type = "ValueError"
             /\ last.out.exc.names = VALID_BATCH_FORMATS

\* C7: over any sequence of batch_to_block calls the fallback warning is
\* logged at most once: the key once set is never removed, and once the
\* warning has been logged no later call logs it again.
C7_WarningAtMostOnce ==
    [][/\ warnings' <= 1
       /\ logged \subseteq logged'
       /\ (FALLBACK_KEY \in logged => warnings' = warnings)]_vars

C7_Witness ==
    /\ ArrowFailed
    /\ warnings = 1
    /\ ~Logged(last.trace)
    /\ InTrace(last.trace, "log_once")

IsMetadataCall == last.op \in {"BlockMetadata", "get_metadata"}

\* C8 as stated: a constructed BlockMetadata has size_bytes None or a plain
\* int, and a present size_bytes of any other type fails the assertion.
C8_SizeBytesPlainInt ==
    IsMetadataCall =>
        /\ last.out.status = "return" =>
             last.out.value.size_bytes.type \in {"NoneType", "int"}
        /\ last.size_bytes.type \notin {"NoneType", "int"} =>
             last.out = Raise([type |-> "AssertionError"])

\* C8 amended: a constructed BlockMetadata has size_bytes None or an instance
\* of int (int itself or a subclass of it such as bool), stored as passed; a
\* present size_bytes that is no instance of int (a float, a numpy integer)
\* fails the assertion; None for size_bytes, num_rows or schema is accepted.
C8_SizeBytesIntInstance ==
    IsMetadataCall =>
        /\ last.out.status = "return" =>
             /\ last.out.value.size_bytes.type \in {"NoneType", "int", "bool"}
             /\ last.out.value.size_bytes = last.size_bytes
        /\ last.size_bytes.type \notin {"NoneType", "int", "bool"} =>
             last.out = Raise([type |-> "AssertionError"])
        /\ last.size_bytes = PyNone =>
             /\ last.out.status = "return"
             /\ last.out.value.num_rows = last.num_rows
             /\ last.out.value.schema = last.schema

C8_Witness ==
    /\ last.op = "get_metadata"
    /\ last.size_bytes.type = "numpy.int64"
    /\ last.out.status = "raise"

\* C9: a constructed BlockMetadata never has a null input_files: None (or
\* input_files omitted from get_metadata) becomes the empty list, and any
\* other argument is stored as given.
C9_InputFilesNormalized ==
    (IsMetadataCall /\ last.out.status = "return") =>
        /\ last.out.value.input_files # PyNone
        /\ last.input_files = PyNone => last.out.value.input_files = PyList(<<>>)
        /\ last.input_files # PyNone => last.out.value.input_files = last.input_files

C9_Witness ==
    /\ last.op = "get_metadata"
    /\ last.input_files = PyNone
    /\ last.out.status = "return"
    /\ last.out.value.input_files = PyList(<<>>)

\* C10: the first batch_to_block call that falls back to the dataframe
\* representation is the call that logs the warning; a call with block_type
\* ARROW whose conversion failure is propagated neither logs the warning nor
\* consumes the one-time key.
C10_FirstFallbackLogs ==
    [][(calls' # calls /\ last'.op = "batch_to_block") =>
         /\ (FellBack(last'.trace) /\ ~fellBack) => warnings' = warnings + 1
         /\ (/\ last'.block_type = ARROW
             /\ last'.out.status = "raise"
             /\ last'.out.exc.type = "ArrowConversionError") =>
              (warnings' = warnings /\ logged' = logged)]_vars

====
